---- MODULE Spec2Model ----
(***************************************************************************)
(* Model of app.py: the tag extractor parse_features_and_tags, the data    *)
(* frame builder make_df and the two hardcoded scenario tables.            *)
(*                                                                         *)
(* A Python str is modelled as a sequence of one-character strings, so     *)
(* that lowercasing, substring tests, the regular expressions, strip,      *)
(* title and replace are computed character by character as CPython does.  *)
(* The fixed result strings ("Unknown", "With FWO", ...) are TLA+ strings; *)
(* a captured set-off phrase is converted to one by ToStr.                 *)
(***************************************************************************)
EXTENDS Integers, Sequences, FiniteSets, TLC

VARIABLES text, tags, pc, df_woolies, df_coles, arg, frames, tpc, ret

vars == <<text, tags, pc, df_woolies, df_coles, arg, frames, tpc, ret>>

seqVars == <<text, tags, pc, df_woolies, df_coles>>

thrVars == <<arg, frames, tpc, ret>>

(***************************************************************************)
(* Characters and the str methods the extractor uses.                      *)
(***************************************************************************)
LowerLetters == <<"a","b","c","d","e","f","g","h","i","j","k","l","m","n","o","p","q","r","s","t","u","v","w","x","y","z">>

UpperLetters == <<"A","B","C","D","E","F","G","H","I","J","K","L","M","N","O","P","Q","R","S","T","U","V","W","X","Y","Z">>

LowerSet == {LowerLetters[i] : i \in 1..26}

UpperSet == {UpperLetters[i] : i \in 1..26}

\* str.lower() on one character
LowerChar(c) ==
    IF c \in UpperSet
    THEN LowerLetters[CHOOSE i \in 1..26 : UpperLetters[i] = c]
    ELSE c

\* str.upper() on one character
UpperChar(c) ==
    IF c \in LowerSet
    THEN UpperLetters[CHOOSE i \in 1..26 : LowerLetters[i] = c]
    ELSE c

\* text.lower()
Lower(s) == [i \in 1..Len(s) |-> LowerChar(s[i])]

\* the characters \s matches and str.strip() removes
IsSpace(c) == c \in {" ", "\t", "\n", "\r"}

\* a cased character (str.title looks at these)
IsCased(c) == c \in LowerSet \cup UpperSet

\* the character class [a-z\s-] of the set-off patterns
InPhraseClass(c) == c \in LowerSet \/ IsSpace(c) \/ c = "-"

\* pat occurs in s starting at index i
MatchesAt(s, i, pat) ==
    /\ i >= 1
    /\ i + Len(pat) - 1 <= Len(s)
    /\ \A k \in 1..Len(pat) : s[i + k - 1] = pat[k]

\* the Python test  pat in s
Contains(s, pat) == \E i \in 1..(Len(s) - Len(pat) + 1) : MatchesAt(s, i, pat)

Min(S) == CHOOSE x \in S : \A y \in S : x <= y

Max(S) == CHOOSE x \in S : \A y \in S : x >= y

\* first index >= i whose character is not a whitespace (Len(s)+1 if none)
SkipSpace(s, i) ==
    Min({j \in i..(Len(s) + 1) : j = Len(s) + 1 \/ ~IsSpace(s[j])})

\* first index >= i whose character is outside [a-z\s-] (Len(s)+1 if none)
SkipPhrase(s, i) ==
    Min({j \in i..(Len(s) + 1) : j = Len(s) + 1 \/ ~InPhraseClass(s[j])})

\* last index <= i whose character is not a whitespace (0 if none)
SkipSpaceBack(s, i) ==
    Max({j \in 0..i : j = 0 \/ ~IsSpace(s[j])})

\* str.strip()
Strip(s) ==
    LET a == SkipSpace(s, 1)
        b == SkipSpaceBack(s, Len(s))
    IN  IF a > b THEN <<>> ELSE SubSeq(s, a, b)

\* str.title(): a cased character is upper-cased when the character before
\* it is not cased (or there is none) and lower-cased otherwise
Title(s) ==
    [i \in 1..Len(s) |->
        IF IsCased(s[i])
        THEN IF i > 1 /\ IsCased(s[i - 1]) THEN LowerChar(s[i]) ELSE UpperChar(s[i])
        ELSE s[i]]

\* str.replace(old, new) from index i on: the text up to the next occurrence
\* of old is copied, the occurrence replaced, and the scan resumes after it
RECURSIVE ReplaceFrom(_, _, _, _)
ReplaceFrom(s, i, old, new) ==
    LET occ == {j \in i..Len(s) : MatchesAt(s, j, old)}
    IN  IF occ = {} THEN SubSeq(s, i, Len(s))
        ELSE SubSeq(s, i, Min(occ) - 1) \o new
                 \o ReplaceFrom(s, Min(occ) + Len(old), old, new)

Replace(s, old, new) == ReplaceFrom(s, 1, old, new)

\* the characters of a Python str as one TLA+ string
RECURSIVE ToStr(_)
ToStr(s) ==
    IF Len(s) = 0 THEN ""
    ELSE IF Len(s) = 1 THEN s[1]
    ELSE LET h == Len(s) \div 2
         IN  ToStr(SubSeq(s, 1, h)) \o ToStr(SubSeq(s, h + 1, Len(s)))

(***************************************************************************)
(* The regular expressions.                                                *)
(***************************************************************************)
NoMatch == [matched |-> FALSE, group |-> <<>>, last |-> 0]

\* A match of  set-off\s*:\s*([a-z\s-]+)  that starts at index i.  \s* before
\* the colon is greedy and the colon is no whitespace, so it takes the whole
\* whitespace run.  \s* after the colon first takes the whole run (up to q-1)
\* and the group the phrase characters from q on; when s[q] is no phrase
\* character the engine backtracks \s* by one and the group is the single
\* whitespace s[q-1]; with no whitespace to give back there is no match.
SetoffMatchAt(s, i) ==
    IF ~MatchesAt(s, i, <<"s","e","t","-","o","f","f">>) THEN NoMatch
    ELSE LET c == SkipSpace(s, i + 7)
         IN  IF c > Len(s) \/ s[c] # ":" THEN NoMatch
             ELSE LET p == c + 1
                      q == SkipSpace(s, p)
                      e == SkipPhrase(s, q)
                  IN  IF e > q
                      THEN [matched |-> TRUE, group |-> SubSeq(s, q, e - 1), last |-> e - 1]
                      ELSE IF q > p
                           THEN [matched |-> TRUE, group |-> <<s[q - 1]>>, last |-> q - 1]
                           ELSE NoMatch

\* re.search(r"set-off\s*:\s*([a-z\s-]+)", t): the leftmost match
SetoffSearch(s) ==
    LET starts == {i \in 1..Len(s) : SetoffMatchAt(s, i).matched}
    IN  IF starts = {} THEN NoMatch ELSE SetoffMatchAt(s, Min(starts))

\* A match of  set-off\s*[:]\s*([a-z\s-]+)\s*\|  at index i: the first pattern
\* followed by \s*\| .  The character after the longest group is no phrase
\* character, so the trailing \s* is empty there and a pipe must follow; a
\* shorter group leaves a phrase character before the pipe position unless
\* the rest is whitespace, and then the pipe is still the character after
\* the run, so the pattern matches exactly when that character is a pipe.
SetoffPipeMatchAt(s, i) ==
    LET m == SetoffMatchAt(s, i)
    IN  IF m.matched /\ m.last + 1 <= Len(s) /\ s[m.last + 1] = "|"
        THEN m
        ELSE NoMatch

\* re.search(r"set-off\s*[:]\s*([a-z\s-]+)\s*\|", t)
SetoffPipeSearch(s) ==
    LET starts == {i \in 1..Len(s) : SetoffPipeMatchAt(s, i).matched}
    IN  IF starts = {} THEN NoMatch ELSE SetoffPipeMatchAt(s, Min(starts))

\* re.sub(r"\|", " | ", s): the pattern without its \s* (a faulty variant)
RECURSIVE SubPipesBareFrom(_, _)
SubPipesBareFrom(s, i) ==
    LET starts == {j \in i..Len(s) : s[j] = "|"}
    IN  IF starts = {} THEN SubSeq(s, i, Len(s))
        ELSE SubSeq(s, i, Min(starts) - 1) \o <<" ","|"," ">>
                 \o SubPipesBareFrom(s, Min(starts) + 1)

\* re.sub(r"\s*\|\s*", " | ", s) from index i on: a match starts at j when
\* the whitespace run from j is followed by a pipe, and takes the
\* whitespace after the pipe too; the text before the leftmost match is
\* copied and the scan resumes after the match
RECURSIVE SubPipesFrom(_, _)
SubPipesFrom(s, i) ==
    LET starts == {j \in i..Len(s) :
                      SkipSpace(s, j) <= Len(s) /\ s[SkipSpace(s, j)] = "|"}
    IN  IF starts = {} THEN SubSeq(s, i, Len(s))
        ELSE SubSeq(s, i, Min(starts) - 1) \o <<" ","|"," ">>
                 \o SubPipesFrom(s, SkipSpace(s, SkipSpace(s, Min(starts)) + 1))

SubPipesBare(s) == SubPipesBareFrom(s, 1)

SubPipes(s) == SubPipesFrom(s, 1)

(***************************************************************************)
(* parse_features_and_tags, field by field.  t is text.lower().            *)
(***************************************************************************)
\* what reading a local that no branch assigned would give (UnboundLocalError)
Unbound == "<unbound>"

\* the approach chain without its else branch (a faulty variant)
ApproachNoElse(t) ==
    IF Contains(t, <<"j","u","d","g","e","m","e","n","t"," ","b","a","s","e","d">>) THEN "Judgement Based"
    ELSE IF Contains(t, <<"c","o","l","e","s"," ","b","a","s","e","d">>) THEN "Coles Based"
    ELSE Unbound

Approach(t) ==
    IF Contains(t, <<"j","u","d","g","e","m","e","n","t"," ","b","a","s","e","d">>) THEN "Judgement Based"
    ELSE IF Contains(t, <<"c","o","l","e","s"," ","b","a","s","e","d">>) THEN "Coles Based"
    ELSE "Unknown"

\* the FWO chain with the "with fwo" test first (a faulty variant)
FwoWithFirst(t) ==
    IF Contains(t, <<"w","i","t","h"," ","f","w","o">>) \/ Contains(t, <<"a","f","t","e","r"," ","f","w","o">>) THEN "With FWO"
    ELSE IF Contains(t, <<"w","i","t","h","o","u","t"," ","f","w","o">>) THEN "Without FWO"
    ELSE "Unknown"

Fwo(t) ==
    IF Contains(t, <<"w","i","t","h","o","u","t"," ","f","w","o">>) THEN "Without FWO"
    ELSE IF Contains(t, <<"w","i","t","h"," ","f","w","o">>) \/ Contains(t, <<"a","f","t","e","r"," ","f","w","o">>) THEN "With FWO"
    ELSE "Unknown"

\* the fallback keywords of the set-off branch
SetoffKeywords(t) ==
    IF Contains(t, <<"p","a","y"," ","p","e","r","i","o","d">>) THEN "Pay Period"
    ELSE IF Contains(t, <<"a","n","n","u","a","l">>) THEN "Annual"
    ELSE IF \/ Contains(t, <<"b","i"," ","a","n","n","u","a","l">>)
            \/ Contains(t, <<"b","i","-","a","n","n","u","a","l">>)
            \/ Contains(t, <<"b","i","a","n","n","u","a","l">>) THEN "Bi Annual"
    ELSE "Unknown"

\* the set-off branch with .title() left out (a faulty variant)
SetoffNoTitle(t) ==
    IF ~Contains(t, <<"s","e","t","-","o","f","f">>) THEN "Unknown"
    ELSE LET m == SetoffSearch(t)
         IN  IF m.matched THEN ToStr(Strip(m.group))
             ELSE LET m2 == SetoffPipeSearch(t)
                  IN  IF m2.matched THEN ToStr(Strip(m2.group))
                      ELSE SetoffKeywords(t)

Setoff(t) ==
    IF ~Contains(t, <<"s","e","t","-","o","f","f">>) THEN "Unknown"
    ELSE LET m == SetoffSearch(t)
         IN  IF m.matched THEN ToStr(Title(Strip(m.group)))
             ELSE LET m2 == SetoffPipeSearch(t)
                  IN  IF m2.matched THEN ToStr(Title(Strip(m2.group)))
                      ELSE SetoffKeywords(t)

\* the 557C chain with the non-clocked test first (a faulty variant)
Cond557cNonClockedFirst(t) ==
    IF ~Contains(t, <<"5","5","7","c">>) THEN "N/A"
    ELSE IF Contains(t, <<"n","o","n","-","c","l","o","c","k","e","d">>) \/ Contains(t, <<"n","o","n"," ","c","l","o","c","k","e","d">>)
         THEN "Non-Clocked Shifts"
    ELSE IF Contains(t, <<"a","l","l"," ","s","h","i","f","t","s">>) THEN "All Shifts"
    ELSE "557C (Unspecified)"

Cond557c(t) ==
    IF ~Contains(t, <<"5","5","7","c">>) THEN "N/A"
    ELSE IF Contains(t, <<"a","l","l"," ","s","h","i","f","t","s">>) THEN "All Shifts"
    ELSE IF Contains(t, <<"n","o","n","-","c","l","o","c","k","e","d">>) \/ Contains(t, <<"n","o","n"," ","c","l","o","c","k","e","d">>)
         THEN "Non-Clocked Shifts"
    ELSE "557C (Unspecified)"

\* the clause test with its two results exchanged (a faulty variant)
ClauseSwapped(t) == IF Contains(t, <<"2","8",".","1","1">>) THEN "Unknown" ELSE "28.11"

Clause(t) == IF Contains(t, <<"2","8",".","1","1">>) THEN "28.11" ELSE "Unknown"

\* the axis label, from the original text
ShortLabel(s) == Strip(SubPipes(Replace(s, <<"A","p","p","o","r","a","c","h">>, <<"A","p","p","r","o","a","c","h">>)))

parse_features_and_tags(s) ==
    LET t == Lower(s)
    IN  [approach  |-> Approach(t),
         fwo       |-> Fwo(t),
         setoff    |-> Setoff(t),
         cond_557c |-> Cond557c(t),
         clause    |-> Clause(t),
         label     |-> ShortLabel(s)]

(***************************************************************************)
(* The hardcoded scenario tables (category and features of each row; the   *)
(* value and color columns take no part in the tagging).                   *)
(***************************************************************************)
WOOLWORTHS_ROWS == <<
    [category |-> <<"J","u","d","g","e","m","e","n","t"," ","B","a","s","e","d"," ","C","l","a","u","s","e"," ","2","8",".","1","1"," ","A","p","p","o","r","a","c","h"," ","|"," ","W","i","t","h","o","u","t"," ","F","W","O"," ","|"," ","S","e","t","-","o","f","f",":"," ","P","a","y"," ","P","e","r","i","o","d">>,
     features |-> {"Clause 28.11: Judgement Based Approach",
                   "FWO Cut Status: Without FWO",
                   "Set-off: Pay Period"}],
    [category |-> <<"J","u","d","g","e","m","e","n","t"," ","B","a","s","e","d"," ","C","l","a","u","s","e"," ","2","8",".","1","1"," ","A","p","p","o","r","a","c","h"," ","|"," ","W","i","t","h"," ","F","W","O"," ","|"," ","S","e","t","-","o","f","f",":"," ","B","i"," ","A","n","n","u","a","l">>,
     features |-> {"Clause 28.11: Judgement Based Approach",
                   "FWO Cut Status: With FWO Applied",
                   "Set-off: Bi Annual"}],
    [category |-> <<"C","o","l","e","s"," ","B","a","s","e","d"," ","C","l","a","u","s","e"," ","2","8",".","1","1"," ","A","p","p","r","o","a","c","h"," ","|","W","i","t","h","o","u","t"," ","F","W","O"," ","|"," ","S","e","t","-","o","f","f",":"," ","B","i"," ","A","n","n","u","a","l">>,
     features |-> {"Clause 28.11: Coles Based Approach",
                   "FWO Cut Status: Without FWO",
                   "Set-off: Bi Annual"}],
    [category |-> <<"J","u","d","g","e","m","e","n","t"," ","B","a","s","e","d"," ","C","l","a","u","s","e"," ","2","8",".","1","1"," ","A","p","p","o","r","a","c","h"," ","|"," ","W","i","t","h"," ","F","W","O"," ","|"," ","S","e","t","-","o","f","f",":"," ","P","a","y"," ","P","e","r","i","o","d">>,
     features |-> {"Clause 28.11: Judgement Based Approach",
                   "FWO Cut Status: With FWO Applied",
                   "Set-off: Pay Period"}],
    [category |-> <<"C","o","l","e","s"," ","B","a","s","e","d"," ","C","l","a","u","s","e"," ","2","8",".","1","1"," ","A","p","p","r","o","a","c","h"," ","|"," ","W","i","t","h"," ","F","W","O"," ","|"," ","S","e","t","-","o","f","f",":"," ","B","i"," ","A","n","n","u","a","l">>,
     features |-> {"Clause 28.11: Coles Based Approach",
                   "FWO Cut Status: With FWO Applied",
                   "Set-off: Bi Annual"}] >>

COLES_ROWS == <<
    [category |-> <<"J","u","d","g","e","m","e","n","t"," ","B","a","s","e","d"," ","C","l","a","u","s","e"," ","2","8",".","1","1"," ","A","p","p","o","r","a","c","h"," "," ","|"," ","S","e","t","-","o","f","f",":"," ","P","a","y"," ","p","e","r","i","o","d"," ","|"," ","5","5","7","C"," ","c","o","n","d","i","t","i","o","n"," ","o","n"," ","a","l","l"," ","s","h","i","f","t","s">>,
     features |-> {"Clause 28.11: Judgement Based Approach",
                   "FWO Cut Status: Without FWO",
                   "Set-off: Pay Period",
                   "557C Condition: All Shifts"}],
    [category |-> <<"J","u","d","g","e","m","e","n","t"," ","B","a","s","e","d"," ","C","l","a","u","s","e"," ","2","8",".","1","1"," ","A","p","p","o","r","a","c","h"," ","|"," ","S","e","t","-","o","f","f",":"," ","P","a","y"," ","p","e","r","i","o","d"," ","|"," ","5","5","7","C"," ","c","o","n","d","i","t","i","o","n"," ","o","n"," ","n","o","n","-","c","l","o","c","k","e","d"," ","s","h","i","f","t","s">>,
     features |-> {"Clause 28.11: Judgement Based Approach",
                   "FWO Cut Status: Without FWO",
                   "Set-off: Pay Period",
                   "557C Condition: Non-clocked shifts",
                   "Best on Judgement"}],
    [category |-> <<"J","u","d","g","e","m","e","n","t"," ","B","a","s","e","d"," ","C","l","a","u","s","e"," ","2","8",".","1","1"," ","A","p","p","o","r","a","c","h"," ","|"," ","S","e","t","-","o","f","f",":"," ","P","a","y"," ","p","e","r","i","o","d"," ","|"," ","5","5","7","C"," ","c","o","n","d","i","t","i","o","n"," ","o","n"," ","n","o","n","-","c","l","o","c","k","e","d"," ","s","h","i","f","t","s"," ","|"," ","A","f","t","e","r"," ","F","W","O">>,
     features |-> {"Clause 28.11: Judgement Based Approach",
                   "FWO Cut Status: With FWO Applied",
                   "Set-off: Pay Period",
                   "557C Condition: Non-clocked shifts",
                   "Likely Best"}],
    [category |-> <<"C","o","l","e","s"," ","B","a","s","e","d"," ","C","l","a","u","s","e"," ","2","8",".","1","1"," ","A","p","p","o","r","a","c","h"," ","|","S","e","t","-","o","f","f",":"," ","A","n","n","u","a","l"," ","|"," ","5","5","7","C"," ","c","o","n","d","i","t","i","o","n"," ","o","n"," ","a","l","l"," ","s","h","i","f","t","s"," ","|"," ","A","f","t","e","r"," ","F","W","O">>,
     features |-> {"Clause 28.11: Coles Based Approach",
                   "FWO Cut Status: With FWO Applied",
                   "Set-off: Annual",
                   "557C Condition: All Shifts"}],
    [category |-> <<"C","o","l","e","s"," ","B","a","s","e","d"," ","C","l","a","u","s","e"," ","2","8",".","1","1"," ","A","p","p","r","o","a","c","h"," ","|","S","e","t","-","o","f","f",":"," ","A","n","n","u","a","l"," ","|"," ","5","5","7","C"," ","c","o","n","d","i","t","i","o","n"," ","o","n"," ","n","o","n","-","c","l","o","c","k","e","d"," ","s","h","i","f","t","s"," ","|"," ","A","f","t","e","r"," ","F","W","O">>,
     features |-> {"Clause 28.11: Coles Based Approach",
                   "FWO Cut Status: With FWO Applied",
                   "Set-off: Annual",
                   "557C Condition: Non-clocked shifts",
                   "Likely Worst"}] >>

\* make_df: every row with the tags of its category added as columns (the
\* str cells category and label are held as TLA+ strings)
make_df(rs) ==
    [i \in 1..Len(rs) |->
        LET tg == parse_features_and_tags(rs[i].category)
        IN  [category  |-> ToStr(rs[i].category),
             features  |-> rs[i].features,
             approach  |-> tg.approach,
             fwo       |-> tg.fwo,
             setoff    |-> tg.setoff,
             cond_557c |-> tg.cond_557c,
             clause    |-> tg.clause,
             label     |-> ToStr(tg.label)]]

(***************************************************************************)
(* Inputs of a direct call: every concatenation of at most MaxFrags         *)
(* fragments of one vocabulary.                                            *)
(***************************************************************************)
MaxFrags == 3

NumThreads == 2

FwoVocab ==
    {<<"W","i","t","h","o","u","t"," ","F","W","O">>, <<"W","i","t","h"," ","F","W","O">>, <<"A","f","t","e","r"," ","F","W","O">>, <<" ","|"," ">>,
     <<"C","o","l","e","s"," ","B","a","s","e","d"," ","C","l","a","u","s","e"," ","2","8",".","1","1">>}

CondVocab ==
    {<<"5","5","7","C">>, <<"a","l","l"," ","s","h","i","f","t","s">>, <<"n","o","n","-","c","l","o","c","k","e","d">>, <<"N","o","n"," ","C","l","o","c","k","e","d">>, <<" ","|"," ">>}

SetoffVocab ==
    {<<"S","e","t","-","o","f","f">>, <<"S","E","T","-","O","F","F"," ",":">>, <<":">>, <<" ">>, <<"|">>, <<"3">>,
     <<"P","a","y"," ","p","e","r","i","o","d">>, <<"b","i","-","a","n","n","u","a","l">>}

LabelVocab ==
    {<<"A","p","p","o","r","a","c","h">>, <<"A","p","p","o","r">>, <<"a","c","h">>, <<"|">>, <<" ">>, <<"\t">>}

Vocabularies == {FwoVocab, CondVocab, SetoffVocab, LabelVocab}

RECURSIVE Concat(_)
Concat(fs) == IF fs = <<>> THEN <<>> ELSE Head(fs) \o Concat(Tail(fs))

Inputs ==
    UNION {{Concat(fs) : fs \in UNION {[1..k -> V] : k \in 0..MaxFrags}} :
           V \in Vocabularies}

\* the texts the concurrent callers pass
ConcTexts ==
    {<<>>, WOOLWORTHS_ROWS[1].category, <<"5","5","7","C"," ","a","l","l"," ","s","h","i","f","t","s"," ","|","S","e","t","-","o","f","f",":"," ","A","n","n","u","a","l"," ","|"," ","A","f","t","e","r"," ","F","W","O">>}

Threads == 1..NumThreads

(***************************************************************************)
(* State.                                                                  *)
(*   text, tags   argument and result of the latest direct call            *)
(*   pc           position of the main program                             *)
(*   df_woolies, df_coles  the module-level data frames                     *)
(*   arg, frames, tpc, ret  per thread: the argument passed, the frame of   *)
(*                locals of its call, its position in the function body,   *)
(*                and the value returned                                   *)
(***************************************************************************)
NoTags ==
    [approach |-> Unbound, fwo |-> Unbound, setoff |-> Unbound,
     cond_557c |-> Unbound, clause |-> Unbound, label |-> <<>>]

FreshFrame(s) ==
    [text |-> s, t |-> <<>>, approach |-> Unbound, fwo |-> Unbound,
     setoff |-> Unbound, cond_557c |-> Unbound, clause |-> Unbound,
     short |-> <<>>]

DfWooliesLoaded == make_df(WOOLWORTHS_ROWS)

DfColesLoaded == make_df(COLES_ROWS)

ThreadsIdle ==
    /\ arg = [th \in Threads |-> <<>>]
    /\ frames = [th \in Threads |-> FreshFrame(<<>>)]
    /\ tpc = [th \in Threads |-> "idle"]
    /\ ret = [th \in Threads |-> NoTags]

\* the program starts importing the module, or the module is imported and a
\* caller is about to pass text to the extractor
Init ==
    /\ tags = NoTags
    /\ \/ /\ pc = "import"
          /\ text = <<>>
          /\ df_woolies = <<>>
          /\ df_coles = <<>>
       \/ /\ pc = "loaded"
          /\ text \in Inputs
          /\ df_woolies = DfWooliesLoaded
          /\ df_coles = DfColesLoaded
    /\ ThreadsIdle

(***************************************************************************)
(* The main program: the two module-level make_df calls, then calls of the *)
(* extractor.                                                              *)
(***************************************************************************)
\* df_woolies = make_df(WOOLWORTHS_ROWS)
LoadWoolworths ==
    /\ pc = "import"
    /\ df_woolies' = make_df(WOOLWORTHS_ROWS)
    /\ pc' = "woolworths_loaded"
    /\ UNCHANGED <<text, tags, df_coles, thrVars>>

\* df_coles = make_df(COLES_ROWS)
LoadColes ==
    /\ pc = "woolworths_loaded"
    /\ df_coles' = make_df(COLES_ROWS)
    /\ pc' = "loaded"
    /\ UNCHANGED <<text, tags, df_woolies, thrVars>>

\* parse_features_and_tags(text)
Call ==
    /\ pc = "loaded"
    /\ tags' = parse_features_and_tags(text)
    /\ pc' = "returned"
    /\ UNCHANGED <<text, df_woolies, df_coles, thrVars>>

\* parse_features_and_tags(tags["label"]): the extractor run again on the
\* label it returned
CallOnLabel ==
    /\ pc = "returned"
    /\ text' = tags.label
    /\ tags' = parse_features_and_tags(tags.label)
    /\ pc' = "relabelled"
    /\ UNCHANGED <<df_woolies, df_coles, thrVars>>

Next == LoadWoolworths \/ LoadColes \/ Call \/ CallOnLabel

Spec == Init /\ [][Next]_vars

(***************************************************************************)
(* Concurrent calls: each thread runs the function body statement by       *)
(* statement on the frame of its own call.  Every name the body assigns    *)
(* (t, approach, fwo, setoff, cond_557c, clause, short) is a local: the    *)
(* function has no global or nonlocal declaration.                         *)
(***************************************************************************)
\* every call's locals in one shared namespace (a faulty variant)
FrameShared(th) == 1

\* the frame that holds the locals of thread th's call
FrameOf(th) == th

InitConc ==
    /\ text = <<>>
    /\ tags = NoTags
    /\ pc = "loaded"
    /\ df_woolies = DfWooliesLoaded
    /\ df_coles = DfColesLoaded
    /\ ThreadsIdle

\* the call: a new frame with the parameter text bound
Enter(th) ==
    /\ tpc[th] = "idle"
    /\ \E s \in ConcTexts :
          /\ arg' = [arg EXCEPT ![th] = s]
          /\ frames' = [frames EXCEPT ![FrameOf(th)] = FreshFrame(s)]
    /\ tpc' = [tpc EXCEPT ![th] = "lower"]
    /\ UNCHANGED <<ret, seqVars>>

\* t = text.lower()
StepLower(th) ==
    /\ tpc[th] = "lower"
    /\ frames' = [frames EXCEPT ![FrameOf(th)].t = Lower(frames[FrameOf(th)].text)]
    /\ tpc' = [tpc EXCEPT ![th] = "approach"]
    /\ UNCHANGED <<arg, ret, seqVars>>

StepApproach(th) ==
    /\ tpc[th] = "approach"
    /\ frames' = [frames EXCEPT ![FrameOf(th)].approach = Approach(frames[FrameOf(th)].t)]
    /\ tpc' = [tpc EXCEPT ![th] = "fwo"]
    /\ UNCHANGED <<arg, ret, seqVars>>

StepFwo(th) ==
    /\ tpc[th] = "fwo"
    /\ frames' = [frames EXCEPT ![FrameOf(th)].fwo = Fwo(frames[FrameOf(th)].t)]
    /\ tpc' = [tpc EXCEPT ![th] = "setoff"]
    /\ UNCHANGED <<arg, ret, seqVars>>

StepSetoff(th) ==
    /\ tpc[th] = "setoff"
    /\ frames' = [frames EXCEPT ![FrameOf(th)].setoff = Setoff(frames[FrameOf(th)].t)]
    /\ tpc' = [tpc EXCEPT ![th] = "cond_557c"]
    /\ UNCHANGED <<arg, ret, seqVars>>

StepCond557c(th) ==
    /\ tpc[th] = "cond_557c"
    /\ frames' = [frames EXCEPT
                    ![FrameOf(th)].cond_557c = Cond557c(frames[FrameOf(th)].t)]
    /\ tpc' = [tpc EXCEPT ![th] = "clause"]
    /\ UNCHANGED <<arg, ret, seqVars>>

StepClause(th) ==
    /\ tpc[th] = "clause"
    /\ frames' = [frames EXCEPT ![FrameOf(th)].clause = Clause(frames[FrameOf(th)].t)]
    /\ tpc' = [tpc EXCEPT ![th] = "short"]
    /\ UNCHANGED <<arg, ret, seqVars>>

StepShort(th) ==
    /\ tpc[th] = "short"
    /\ frames' = [frames EXCEPT
                    ![FrameOf(th)].short = ShortLabel(frames[FrameOf(th)].text)]
    /\ tpc' = [tpc EXCEPT ![th] = "return"]
    /\ UNCHANGED <<arg, ret, seqVars>>

\* return {...}
Return(th) ==
    /\ tpc[th] = "return"
    /\ LET f == frames[FrameOf(th)]
       IN  ret' = [ret EXCEPT ![th] =
                      [approach  |-> f.approach,
                       fwo       |-> f.fwo,
                       setoff    |-> f.setoff,
                       cond_557c |-> f.cond_557c,
                       clause    |-> f.clause,
                       label     |-> f.short]]
    /\ tpc' = [tpc EXCEPT ![th] = "done"]
    /\ UNCHANGED <<arg, frames, seqVars>>

NextConc ==
    \E th \in Threads :
        \/ Enter(th)
        \/ StepLower(th)
        \/ StepApproach(th)
        \/ StepFwo(th)
        \/ StepSetoff(th)
        \/ StepCond557c(th)
        \/ StepClause(th)
        \/ StepShort(th)
        \/ Return(th)

SpecConc == InitConc /\ [][NextConc]_vars

(***************************************************************************)
(* Vocabulary of the properties, stated on the caller's text without the   *)
(* extractor's own operators.                                              *)
(***************************************************************************)
\* the lower-case pattern pat occurs in s at index i, whatever the case of s
CIMatchesAt(s, i, pat) ==
    /\ i + Len(pat) - 1 <= Len(s)
    /\ \A k \in 1..Len(pat) : LowerChar(s[i + k - 1]) = pat[k]

\* s contains pat, case-insensitively
HasCI(s, pat) == \E i \in 1..Len(s) : CIMatchesAt(s, i, pat)

\* the indices right after the colon of a "set-off:" marker of s (any case,
\* optional whitespace before the colon)
PhraseStarts(s) ==
    {c + 1 : c \in {c \in 1..Len(s) :
                       /\ s[c] = ":"
                       /\ \E i \in 1..Len(s) :
                             /\ CIMatchesAt(s, i, <<"s","e","t","-","o","f","f">>)
                             /\ i + 7 <= c
                             /\ \A k \in (i + 7)..(c - 1) : IsSpace(s[k])}}

\* a letter of either case, a whitespace or a hyphen
IsPhraseChar(c) == LowerChar(c) \in LowerSet \/ IsSpace(c) \/ c = "-"

\* last index of the longest run of phrase characters that starts at p
\* (p - 1 when s[p] is no phrase character)
RunEnd(s, p) ==
    Max({e \in (p - 1)..Len(s) : \A k \in p..e : IsPhraseChar(s[k])})

\* the markers that are followed by at least one phrase character
GoodStarts(s) == {p \in PhraseStarts(s) : RunEnd(s, p) >= p}

\* the run of phrase characters after the first such marker
PhraseRun(s) ==
    LET p == Min(GoodStarts(s)) IN SubSeq(s, p, RunEnd(s, p))

\* the text after the first marker up to the next pipe or the end of s
PipeSegment(s) ==
    LET p == Min(PhraseStarts(s))
        e == Min({j \in p..(Len(s) + 1) : j = Len(s) + 1 \/ s[j] = "|"})
    IN  SubSeq(s, p, e - 1)

\* tags is what the extractor returned for text
Called == pc = "returned"

TagFields == {"approach", "fwo", "setoff", "cond_557c", "clause", "label"}

(***************************************************************************)
(* The claims.                                                             *)
(***************************************************************************)
\* C1: fwo is decided by case-insensitive substring tests in a fixed order:
\* "without fwo" gives "Without FWO" even when "with fwo" or "after fwo" is
\* present too; otherwise "with fwo" or "after fwo" gives "With FWO";
\* otherwise "Unknown".  A text with only "With FWO" never yields
\* "Without FWO" and a text with only "Without FWO" never yields "With FWO".
C1_FwoOrder ==
    Called =>
        /\ tags.fwo =
              IF HasCI(text, <<"w","i","t","h","o","u","t"," ","f","w","o">>) THEN "Without FWO"
              ELSE IF HasCI(text, <<"w","i","t","h"," ","f","w","o">>) \/ HasCI(text, <<"a","f","t","e","r"," ","f","w","o">>)
                   THEN "With FWO"
              ELSE "Unknown"
        /\ (HasCI(text, <<"w","i","t","h"," ","f","w","o">>) /\ ~HasCI(text, <<"w","i","t","h","o","u","t"," ","f","w","o">>))
              => tags.fwo # "Without FWO"
        /\ (/\ HasCI(text, <<"w","i","t","h","o","u","t"," ","f","w","o">>)
            /\ ~HasCI(text, <<"w","i","t","h"," ","f","w","o">>)
            /\ ~HasCI(text, <<"a","f","t","e","r"," ","f","w","o">>)) => tags.fwo # "With FWO"

\* a text with both "with fwo" and "without fwo" was tagged "Without FWO"
C1_Witness ==
    /\ pc = "returned"
    /\ HasCI(text, <<"w","i","t","h","o","u","t"," ","f","w","o">>)
    /\ HasCI(text, <<"w","i","t","h"," ","f","w","o">>)
    /\ tags.fwo = "Without FWO"

\* C2 as stated: for every text with a "set-off:" marker, setoff is the
\* title-cased, trimmed phrase that follows the marker and ends at the next
\* pipe or at the end of the text.
C2_PhraseToPipeOrEnd ==
    (Called /\ PhraseStarts(text) # {}) =>
        tags.setoff = ToStr(Title(Strip(PipeSegment(text))))

\* C2 as amended: for every text in which some "set-off:" marker (any case,
\* optional whitespace around the colon) is followed by at least one letter,
\* whitespace or hyphen, setoff is the title-cased, trimmed longest run of
\* letters, whitespace and hyphens that follows the first such marker; the
\* run ends at the first other character (a pipe, a digit, punctuation) or
\* at the end of the text.
C2_PhraseRun ==
    (Called /\ GoodStarts(text) # {}) =>
        tags.setoff = ToStr(Title(Strip(Lower(PhraseRun(text)))))

\* a marker written "SET-OFF :" whose phrase is ended by a digit, not by a
\* pipe or the end of the text, was tagged with the phrase before the digit
C2_Witness ==
    /\ pc = "returned"
    /\ GoodStarts(text) # {}
    /\ HasCI(text, <<"s","e","t","-","o","f","f"," ",":">>)
    /\ LET p == Min(GoodStarts(text))
       IN  /\ RunEnd(text, p) < Len(text)
           /\ text[RunEnd(text, p) + 1] = "3"
    /\ tags.setoff = "Pay Period"

\* C3: on the keyword path (the text contains "set-off" and no capture
\* pattern matches) setoff is "Pay Period" for "pay period"; otherwise
\* "Bi Annual" for "bi annual", "bi-annual" or "biannual"; otherwise
\* "Annual" for "annual"; otherwise "Unknown".
C3_KeywordScan ==
    (Called /\ HasCI(text, <<"s","e","t","-","o","f","f">>) /\ GoodStarts(text) = {}) =>
        tags.setoff =
            IF HasCI(text, <<"p","a","y"," ","p","e","r","i","o","d">>) THEN "Pay Period"
            ELSE IF \/ HasCI(text, <<"b","i"," ","a","n","n","u","a","l">>)
                    \/ HasCI(text, <<"b","i","-","a","n","n","u","a","l">>)
                    \/ HasCI(text, <<"b","i","a","n","n","u","a","l">>) THEN "Bi Annual"
            ELSE IF HasCI(text, <<"a","n","n","u","a","l">>) THEN "Annual"
            ELSE "Unknown"

\* C4: cond_557c is "N/A" when the text has no "557c", whatever else it has;
\* with "557c" it is "All Shifts" when the text has "all shifts" (also when
\* it has "non-clocked" too), otherwise "Non-Clocked Shifts" when it has
\* "non-clocked" or "non clocked", otherwise "557C (Unspecified)".
C4_Cond557c ==
    Called =>
        tags.cond_557c =
            IF ~HasCI(text, <<"5","5","7","c">>) THEN "N/A"
            ELSE IF HasCI(text, <<"a","l","l"," ","s","h","i","f","t","s">>) THEN "All Shifts"
            ELSE IF HasCI(text, <<"n","o","n","-","c","l","o","c","k","e","d">>) \/ HasCI(text, <<"n","o","n"," ","c","l","o","c","k","e","d">>)
                 THEN "Non-Clocked Shifts"
            ELSE "557C (Unspecified)"

\* a text with "557c", "all shifts" and "non-clocked" was tagged "All Shifts"
C4_Witness ==
    /\ pc = "returned"
    /\ HasCI(text, <<"5","5","7","c">>)
    /\ HasCI(text, <<"a","l","l"," ","s","h","i","f","t","s">>)
    /\ HasCI(text, <<"n","o","n","-","c","l","o","c","k","e","d">>)
    /\ tags.cond_557c = "All Shifts"

\* C5: the extractor is total: on every text it returns a record with
\* exactly the six fields, none of them left unassigned (reading an
\* unassigned local would raise), approach, fwo, cond_557c and clause each
\* one of their listed values.
C5_Total ==
    Called =>
        /\ DOMAIN tags = TagFields
        /\ tags.approach \in {"Judgement Based", "Coles Based", "Unknown"}
        /\ tags.fwo \in {"Without FWO", "With FWO", "Unknown"}
        /\ tags.cond_557c \in
              {"All Shifts", "Non-Clocked Shifts", "557C (Unspecified)", "N/A"}
        /\ tags.clause \in {"28.11", "Unknown"}
        /\ tags.setoff # Unbound
        /\ DOMAIN tags.label = 1..Len(tags.label)

\* a non-empty text that matches nothing was tagged with the sentinels
C5_Witness ==
    /\ pc = "returned"
    /\ text # <<>>
    /\ tags.approach = "Unknown"
    /\ tags.fwo = "Unknown"
    /\ tags.setoff = "Unknown"
    /\ tags.cond_557c = "N/A"
    /\ tags.clause = "Unknown"

\* C6: the empty text gives approach, fwo, setoff and clause "Unknown" and
\* cond_557c "N/A".
C6_EmptyText ==
    (Called /\ text = <<>>) =>
        /\ tags.approach = "Unknown"
        /\ tags.fwo = "Unknown"
        /\ tags.setoff = "Unknown"
        /\ tags.clause = "Unknown"
        /\ tags.cond_557c = "N/A"

\* the extractor returned for the empty text
C6_Witness == pc = "returned" /\ text = <<>> /\ tags.cond_557c = "N/A"

\* C7: label cleanup is idempotent: the extractor run on a label it returned
\* returns that label unchanged.
C7_LabelIdempotent == pc = "relabelled" => tags.label = text

\* the label of a text with the misspelling and two adjacent pipes was
\* parsed again
C7_Witness ==
    /\ pc = "relabelled"
    /\ Contains(text, <<"A","p","p","r","o","a","c","h"," ","|"," "," ","|">>)

\* the tags of each text the concurrent callers pass, computed by one call
\* on its own
TagsAlone == [s \in ConcTexts |-> parse_features_and_tags(s)]

C9_SetoffNonEmpty == Called => tags.setoff # ""

\* what the features list of a row says each tag is
FeatureApproach(fs) ==
    IF "Clause 28.11: Judgement Based Approach" \in fs THEN "Judgement Based"
    ELSE IF "Clause 28.11: Coles Based Approach" \in fs THEN "Coles Based"
    ELSE "Unknown"

FeatureFwo(fs) ==
    IF "FWO Cut Status: Without FWO" \in fs THEN "Without FWO"
    ELSE IF "FWO Cut Status: With FWO Applied" \in fs THEN "With FWO"
    ELSE "Unknown"

FeatureSetoff(fs) ==
    IF "Set-off: Pay Period" \in fs THEN "Pay Period"
    ELSE IF "Set-off: Annual" \in fs THEN "Annual"
    ELSE IF "Set-off: Bi Annual" \in fs THEN "Bi Annual"
    ELSE "Unknown"

FeatureCond557c(fs) ==
    IF "557C Condition: All Shifts" \in fs THEN "All Shifts"
    ELSE IF "557C Condition: Non-clocked shifts" \in fs THEN "Non-Clocked Shifts"
    ELSE "N/A"

RowAgrees(r) ==
    /\ r.approach = FeatureApproach(r.features)
    /\ r.fwo = FeatureFwo(r.features)
    /\ r.setoff = FeatureSetoff(r.features)
    /\ r.cond_557c = FeatureCond557c(r.features)
    /\ "Unknown" \notin {r.approach, r.fwo, r.setoff}

\* C10: the tags make_df derives for each of the ten hardcoded rows agree
\* with the row's features list, and no row gets an "Unknown" approach, fwo
\* or setoff.
C10_RowsAgree ==
    /\ \A i \in 1..Len(df_woolies) : RowAgrees(df_woolies[i])
    /\ \A i \in 1..Len(df_coles) : RowAgrees(df_coles[i])
====
